---------------------------- MODULE Spec2Model ----------------------------
(***************************************************************************)
(* Go bindings of the BLS HD-key library (package blschia):                *)
(*   go-bindings/extendedprivatekey.go, extendedpublickey.go, publickey.go *)
(*                                                                         *)
(* Three specifications share this module:                                 *)
(*   SpecTree  the derivation tree walked by the extended-key operations   *)
(*   SpecMem   the native handles owned by Go key objects (Free/finalizer) *)
(*   SpecAgg   public-key aggregation                                      *)
(*                                                                         *)
(* The cgo calls (C.CExtendedPrivateKey..., C.CPublicKey...) enter the     *)
(* native library; their definitions here follow the library's documented  *)
(* behaviour over a small prime-order group.                               *)
(***************************************************************************)
EXTENDS Integers, Sequences, FiniteSets

VARIABLES
    xkey,    \* SpecTree: the extended key the caller currently holds
    steps,   \* SpecTree: derivation steps since the master key (-1: parsed from bytes)
    op,      \* SpecTree: the last extended-key call and what it returned
    heap,    \* SpecMem: the Go key objects and the state of their native handles
    memOp,   \* SpecMem: the last call on a key object
    agg      \* SpecAgg: the last aggregation call and what it returned

vars == <<xkey, steps, op, heap, memOp, agg>>

----------------------------------------------------------------------------
(* Bounds of the model *)

\* chain codes range over 0..MaxCC
MaxCC == 1
\* seeds are byte strings of length 1..2 over 0..MaxSeedByte
MaxSeedByte == 1
\* parent fingerprints and child numbers offered to the byte parsers: 0..MaxMeta
MaxMeta == 1
\* public keys in one aggregation call
MaxKeys == 4
\* Go key objects alive at once
MaxObjs == 2
\* releases of one native handle that are counted
MaxReleases == 2

----------------------------------------------------------------------------
(* Program constants *)

\* A uint32 that can reach 2^31 (a child index) is held as its two 16-bit
\* halves <<high, low>>, so that the full 32-bit range is represented exactly.
U32(hi, lo) == <<hi % 65536, lo % 65536>>
GeU32(a, b) == a[1] > b[1] \/ (a[1] = b[1] /\ a[2] >= b[2])

\* extendedpublickey.go:67  var childComparator uint32 = (1 << 31)
childComparator == U32(32768, 0)

\* extendedprivatekey.go:99, extendedpublickey.go:75  GetDepth() >= 255
MaxDepth == 255

\* the indices offered to the derivation calls: 0, 2^31 - 1, 2^31, 2^32 - 1
Indices == {U32(0, 0), U32(32767, 65535), U32(32768, 0), U32(65535, 65535)}
NormalIndices == {i \in Indices : ~GeU32(i, childComparator)}
HardenedIndices == {i \in Indices : GeU32(i, childComparator)}

----------------------------------------------------------------------------
(* The native library: group, encodings, key derivation *)

\* The public-key group: the subgroup of order q of (Z/p)*, generated by g.
\* Keys serialize to fixed-length big-endian strings of keySize bytes.
Group == [p |-> 7, q |-> 3, g |-> 2, keySize |-> 4, ccSize |-> 32]

Scalars == 0 .. Group.q - 1

RECURSIVE Pow(_, _, _)
Pow(b, e, m) == IF e = 0 THEN 1 % m ELSE (b * Pow(b, e - 1, m)) % m

Points == {Pow(Group.g, s, Group.p) : s \in Scalars}

\* G1 generator times a scalar: the public key of a private scalar
CPrivateKeyGetPublicKey(sk) == Pow(Group.g, sk, Group.p)

RECURSIVE FromBE(_)
\* big-endian bytes to number
FromBE(s) == IF s = << >> THEN 0
             ELSE FromBE(SubSeq(s, 1, Len(s) - 1)) * 256 + s[Len(s)]

\* number (below 2^24) to big-endian bytes of the given length
ToBE(n, len) ==
    [j \in 1 .. len |-> IF len - j >= 3 THEN 0 ELSE (n \div (256 ^ (len - j))) % 256]

CPublicKeySerialize(pk) == ToBE(pk, Group.keySize)

\* first 4 bytes of the serialized public key
CPublicKeyGetFingerprint(pk) == FromBE(SubSeq(CPublicKeySerialize(pk), 1, 4))

\* Key-derivation hash: (chain code, key material, index) -> (scalar tweak, chain code)
DeriveHash(cc, material, i) ==
    [il |-> (cc + 2 * material + i[1] + i[2]) % Group.q,
     ir |-> (cc + material + i[1] + (i[2] \div 2) + 1) % (MaxCC + 1)]

NoKey == [kind |-> "none", key |-> 0, cc |-> 0, version |-> 0, depth |-> 0,
          pfp |-> 0, child |-> U32(0, 0)]

RECURSIVE SumBytes(_)
SumBytes(s) == IF s = << >> THEN 0 ELSE s[1] + SumBytes(Tail(s))

\* master key and chain code from a seed
CExtendedPrivateKeyFromSeed(seed) ==
    [kind |-> "xprv",
     key |-> (SumBytes(seed) + Len(seed)) % Group.q,
     cc |-> (SumBytes(seed) + 1) % (MaxCC + 1),
     version |-> 1, depth |-> 0, pfp |-> 0, child |-> U32(0, 0)]

\* version(4) || depth(1) || parentFingerprint(4) || childNumber(4) || chainCode(32) || key
CExtendedKeySerialize(k) ==
    ToBE(k.version, 4) \o ToBE(k.depth, 1) \o ToBE(k.pfp, 4)
        \o ToBE(k.child[1], 2) \o ToBE(k.child[2], 2)
        \o ToBE(k.cc, Group.ccSize) \o ToBE(k.key, Group.keySize)

ParseExtended(kind, data) ==
    [kind |-> kind,
     version |-> FromBE(SubSeq(data, 1, 4)),
     depth |-> FromBE(SubSeq(data, 5, 5)),
     pfp |-> FromBE(SubSeq(data, 6, 9)),
     child |-> U32(FromBE(SubSeq(data, 10, 11)), FromBE(SubSeq(data, 12, 13))),
     cc |-> FromBE(SubSeq(data, 14, 13 + Group.ccSize)),
     key |-> FromBE(SubSeq(data, 14 + Group.ccSize, 13 + Group.ccSize + Group.keySize))]

CExtendedPrivateKeyFromBytes(data) == ParseExtended("xprv", data)
CExtendedPublicKeyFromBytes(data) == ParseExtended("xpub", data)

\* hardened indices hash the private scalar, normal ones the public key
CExtendedPrivateKeyPrivateChild(k, i) ==
    LET pk == CPrivateKeyGetPublicKey(k.key)
        h == IF GeU32(i, U32(32768, 0)) THEN DeriveHash(k.cc, Group.p + k.key, i)
                          ELSE DeriveHash(k.cc, pk, i)
    IN [kind |-> "xprv",
        key |-> (k.key + h.il) % Group.q,
        cc |-> h.ir,
        version |-> k.version,
        depth |-> (k.depth + 1) % 256,
        pfp |-> CPublicKeyGetFingerprint(pk),
        child |-> i]

CExtendedPublicKeyPublicChild(k, i) ==
    LET h == DeriveHash(k.cc, k.key, i)
    IN [kind |-> "xpub",
        key |-> (k.key * Pow(Group.g, h.il, Group.p)) % Group.p,
        cc |-> h.ir,
        version |-> k.version,
        depth |-> (k.depth + 1) % 256,
        pfp |-> CPublicKeyGetFingerprint(k.key),
        child |-> i]

CExtendedPrivateKeyGetExtendedPublicKey(k) ==
    [k EXCEPT !.kind = "xpub", !.key = CPrivateKeyGetPublicKey(k.key)]

\* only the key and chain code material is tested
CExtendedPrivateKeyIsEqual(a, b) == a.key = b.key /\ a.cc = b.cc
CExtendedPublicKeyIsEqual(a, b) == a.key = b.key /\ a.cc = b.cc

----------------------------------------------------------------------------
(* extendedprivatekey.go / extendedpublickey.go: the Go methods *)

Ok(k) == [outcome |-> "ok", key |-> k]
Panic(msg) == [outcome |-> msg, key |-> NoKey]

ExtendedPrivateKey_GetDepth(key) == key.depth % 256
ExtendedPublicKey_GetDepth(key) == key.depth % 256

\* variants of the derivation methods with one slip each
PrivateChild_PastCeiling(key, i) ==
    IF ExtendedPrivateKey_GetDepth(key) > MaxDepth
    THEN Panic("DepthExceeded")
    ELSE Ok(CExtendedPrivateKeyPrivateChild(key, U32(i[1], i[2])))

PublicChild_DepthFirst(key, i) ==
    IF ExtendedPublicKey_GetDepth(key) >= MaxDepth
    THEN Panic("DepthExceeded")
    ELSE IF GeU32(i, childComparator)
    THEN Panic("HardenedChildFromPublicKey")
    ELSE Ok(CExtendedPublicKeyPublicChild(key, U32(i[1], i[2])))

PublicChild_PastCeiling(key, i) ==
    IF GeU32(i, childComparator)
    THEN Panic("HardenedChildFromPublicKey")
    ELSE IF ExtendedPublicKey_GetDepth(key) > MaxDepth
    THEN Panic("DepthExceeded")
    ELSE Ok(CExtendedPublicKeyPublicChild(key, U32(i[1], i[2])))

\* the index narrowed to 16 bits on its way into the native call
PublicChild_Narrowed(key, i) ==
    IF GeU32(i, childComparator)
    THEN Panic("HardenedChildFromPublicKey")
    ELSE IF ExtendedPublicKey_GetDepth(key) >= MaxDepth
    THEN Panic("DepthExceeded")
    ELSE Ok(CExtendedPublicKeyPublicChild(key, U32(0, i[2])))

PrivateChild(key, i) ==
    IF ExtendedPrivateKey_GetDepth(key) >= MaxDepth
    THEN Panic("DepthExceeded")
    ELSE Ok(CExtendedPrivateKeyPrivateChild(key, U32(i[1], i[2])))

PublicChild(key, i) ==
    IF GeU32(i, childComparator)
    THEN Panic("HardenedChildFromPublicKey")
    ELSE IF ExtendedPublicKey_GetDepth(key) >= MaxDepth
    THEN Panic("DepthExceeded")
    ELSE Ok(CExtendedPublicKeyPublicChild(key, U32(i[1], i[2])))

GetExtendedPublicKey(key) == CExtendedPrivateKeyGetExtendedPublicKey(key)

ExtendedPrivateKey_Equal(key, other) == CExtendedPrivateKeyIsEqual(key, other)
ExtendedPublicKey_Equal(key, other) == CExtendedPublicKeyIsEqual(key, other)

ExtendedPrivateKeyFromSeed(seed) == CExtendedPrivateKeyFromSeed(seed)
ExtendedPrivateKeyFromBytes(data) == CExtendedPrivateKeyFromBytes(data)
ExtendedPublicKeyFromBytes(data) == CExtendedPublicKeyFromBytes(data)

----------------------------------------------------------------------------
(* Inputs *)

Seeds == UNION {[1 .. n -> 0 .. MaxSeedByte] : n \in 1 .. 2}

\* the depths offered to the byte parsers: the root, a child, and the ceiling
ParseDepths == {0, 1, MaxDepth - 1, MaxDepth}

ExtendedFields(keys) ==
    [kind : {"bytes"}, key : keys, cc : 0 .. MaxCC, version : {1},
     depth : ParseDepths, pfp : 0 .. MaxMeta,
     child : {U32(0, m) : m \in 0 .. MaxMeta}]

\* well-formed serialized extended keys, with what the parsers return for each
PrivateKeyInputs == {<<d, ExtendedPrivateKeyFromBytes(d)>> :
                        d \in {CExtendedKeySerialize(f) : f \in ExtendedFields(Scalars)}}
PublicKeyInputs == {<<d, ExtendedPublicKeyFromBytes(d)>> :
                        d \in {CExtendedKeySerialize(f) : f \in ExtendedFields(Points)}}

NoOp == [name |-> "none", i |-> U32(0, 0), parent |-> NoKey, outcome |-> "none", child |-> NoKey]

----------------------------------------------------------------------------
(* SpecTree *)

MemIdle == heap = << >> /\ memOp = << >>
AggIdle == agg = << >>

InitTree ==
    /\ xkey = NoKey
    /\ steps = -1
    /\ op = NoOp
    /\ MemIdle
    /\ AggIdle

\* A constructor's result does not depend on the key the caller already holds,
\* so the caller constructs at the start of a run: every state a later
\* constructor call would lead to is reached this way.
ExtendedPrivateKeyFromSeedStep ==
    \E seed \in Seeds :
        LET k == ExtendedPrivateKeyFromSeed(seed)
        IN /\ xkey = NoKey
           /\ xkey' = k
           /\ steps' = 0
           /\ op' = [name |-> "ExtendedPrivateKeyFromSeed", i |-> U32(0, 0), parent |-> NoKey,
                     outcome |-> "ok", child |-> k]
           /\ UNCHANGED <<heap, memOp, agg>>

ExtendedPrivateKeyFromBytesStep ==
    \E in \in PrivateKeyInputs :
        /\ xkey = NoKey
        /\ xkey' = in[2]
        /\ steps' = -1
        /\ op' = [name |-> "ExtendedPrivateKeyFromBytes", i |-> U32(0, 0), parent |-> NoKey,
                  outcome |-> "ok", child |-> in[2]]
        /\ UNCHANGED <<heap, memOp, agg>>

ExtendedPublicKeyFromBytesStep ==
    \E in \in PublicKeyInputs :
        /\ xkey = NoKey
        /\ xkey' = in[2]
        /\ steps' = -1
        /\ op' = [name |-> "ExtendedPublicKeyFromBytes", i |-> U32(0, 0), parent |-> NoKey,
                  outcome |-> "ok", child |-> in[2]]
        /\ UNCHANGED <<heap, memOp, agg>>

\* a derivation call: on success the caller walks down to the child
Derived(name, i, r) ==
    /\ op' = [name |-> name, i |-> i, parent |-> xkey, outcome |-> r.outcome,
              child |-> r.key]
    /\ IF r.outcome = "ok"
       THEN /\ xkey' = r.key
            /\ steps' = IF steps < 0 THEN steps ELSE steps + 1
       ELSE UNCHANGED <<xkey, steps>>
    /\ UNCHANGED <<heap, memOp, agg>>

PrivateChildStep ==
    /\ xkey.kind = "xprv"
    /\ \E i \in Indices : Derived("PrivateChild", i, PrivateChild(xkey, i))

PublicChildStep ==
    /\ xkey.kind = "xpub"
    /\ \E i \in Indices : Derived("PublicChild", i, PublicChild(xkey, i))

GetExtendedPublicKeyStep ==
    /\ xkey.kind = "xprv"
    /\ xkey' = GetExtendedPublicKey(xkey)
    /\ op' = [name |-> "GetExtendedPublicKey", i |-> U32(0, 0), parent |-> xkey,
              outcome |-> "ok", child |-> xkey']
    /\ UNCHANGED <<steps, heap, memOp, agg>>

NextTree ==
    \/ ExtendedPrivateKeyFromSeedStep
    \/ ExtendedPrivateKeyFromBytesStep
    \/ ExtendedPublicKeyFromBytesStep
    \/ PrivateChildStep
    \/ PublicChildStep
    \/ GetExtendedPublicKeyStep

SpecTree == InitTree /\ [][NextTree]_vars

----------------------------------------------------------------------------
(* Properties of the derivation tree *)

Hardened(i) == i[1] >= 32768
Derivations == {"PrivateChild", "PublicChild"}

\* C1: PublicChild with an index i >= 2^31 fails with HardenedChildFromPublicKey
\* and returns no child, for a parent at any depth (255 included); no call with
\* i < 2^31, and no other operation, ends that way.
HardenedGating ==
    /\ (op.name = "PublicChild" /\ Hardened(op.i))
          => /\ op.outcome = "HardenedChildFromPublicKey"
             /\ op.child = NoKey
             /\ xkey = op.parent
    /\ op.outcome = "HardenedChildFromPublicKey"
          => (op.name = "PublicChild" /\ Hardened(op.i))

\* C1 witness: a hardened PublicChild on a parent at the depth ceiling was refused
\* as a hardened derivation.
HardenedGatingAtCeiling ==
    /\ op.name = "PublicChild"
    /\ op.parent.depth = 255
    /\ op.i = U32(65535, 65535)
    /\ op.outcome = "HardenedChildFromPublicKey"

\* C2 as stated: every derivation from a key at depth 255 fails with
\* DepthExceeded, PublicChild with any index included.
DepthCeilingAlwaysDepthExceeded ==
    (op.name \in Derivations /\ op.parent.depth = 255)
        => (op.outcome = "DepthExceeded" /\ op.child = NoKey)

\* C2 amended: a derivation from a key at depth 255 never returns a child; it
\* fails with DepthExceeded for PrivateChild with any index and for PublicChild
\* with a normal index, and with HardenedChildFromPublicKey for PublicChild with
\* a hardened index.
DepthCeiling ==
    (op.name \in Derivations /\ op.parent.depth = 255)
        => /\ op.child = NoKey
           /\ xkey = op.parent
           /\ op.outcome = IF op.name = "PublicChild" /\ Hardened(op.i)
                            THEN "HardenedChildFromPublicKey"
                            ELSE "DepthExceeded"

\* C2 witness: a hardened PrivateChild on a key at depth 255 was refused.
DepthCeilingHit ==
    /\ op.name = "PrivateChild"
    /\ op.parent.depth = 255
    /\ Hardened(op.i)
    /\ op.outcome = "DepthExceeded"

\* C3: for an extended private key below the depth ceiling and a normal index,
\* the public projection of the private child is Equal to the public child of
\* the public projection.
ProjectionConsistency ==
    (xkey.kind = "xprv" /\ xkey.depth < 255)
        => \A i \in NormalIndices :
              LET priv == PrivateChild(xkey, i)
                  pub == PublicChild(GetExtendedPublicKey(xkey), i)
              IN /\ priv.outcome = "ok"
                 /\ pub.outcome = "ok"
                 /\ ExtendedPublicKey_Equal(GetExtendedPublicKey(priv.key), pub.key)

\* C3 witness: PrivateChild returned a child for the normal index 2^31 - 1 whose
\* key differs from its parent's, and its projection is the public child.
ProjectionConsistencySeen ==
    /\ op.name = "PrivateChild"
    /\ op.outcome = "ok"
    /\ op.i = U32(32767, 65535)
    /\ op.child.key # op.parent.key
    /\ ExtendedPublicKey_Equal(GetExtendedPublicKey(op.child),
                               PublicChild(GetExtendedPublicKey(op.parent), op.i).key)

\* C4: a child returned by PrivateChild or PublicChild has depth parent.depth + 1
\* without wraparound, and a key reached from a depth-0 master has the number of
\* derivation steps as its depth, within 0..255.
DepthMonotone ==
    /\ (op.name \in Derivations /\ op.outcome = "ok")
          => /\ op.child.depth = op.parent.depth + 1
             /\ op.child.depth \in 0 .. 255
    /\ steps >= 0 => (xkey.depth = steps /\ steps \in 0 .. 255)

\* C4 witness: the 255th derivation from a master, made by PublicChild.
DepthMonotoneAtCeiling ==
    /\ steps = 255
    /\ xkey.depth = 255
    /\ op.name = "PublicChild"
    /\ op.outcome = "ok"
    /\ op.parent.depth = 254

\* C8: every extended key has depth = 0 => parentFingerprint = 0 and
\* childNumber = 0, however it was made.
RootHasNoParent ==
    (xkey.kind # "none" /\ xkey.depth = 0)
        => (xkey.pfp = 0 /\ xkey.child = U32(0, 0))

----------------------------------------------------------------------------
(* SpecMem: Go key objects and their native handles *)

Kinds == {"PublicKey", "ExtendedPublicKey", "ExtendedPrivateKey"}
Slots == 1 .. MaxObjs

\* kind      the Go type, or "free" for an unused slot
\* held      the caller still holds the pointer
\* finalizer runtime.SetFinalizer's callback is registered and has not run
\* releases  how many times C...Free was called on the native handle
FreeSlot == [kind |-> "free", held |-> FALSE, finalizer |-> FALSE, releases |-> 0]

\* var key T; key.key = C....; runtime.SetFinalizer(&key, func(p *T) { p.Free() }); return &key
NewObject(kind) == [kind |-> kind, held |-> TRUE, finalizer |-> TRUE, releases |-> 0]

HasRoom == \E o \in Slots : heap[o].kind = "free"
NextSlot == CHOOSE o \in Slots : heap[o].kind = "free" /\ \A n \in Slots : n < o => heap[n].kind # "free"

Running == memOp.outcome # "fault"

MemOp(name, obj, other, input, outcome, readReleased, made) ==
    [name |-> name, obj |-> obj, other |-> other, input |-> input,
     outcome |-> outcome, readReleased |-> readReleased, made |-> made]

TreeIdle == xkey = NoKey /\ steps = -1 /\ op = NoOp

InitMem ==
    /\ heap = [o \in Slots |-> FreeSlot]
    /\ memOp = MemOp("none", 0, 0, "none", "none", FALSE, 0)
    /\ TreeIdle
    /\ AggIdle

\* a call that returns a new key object, or ends the process
Returns(name, obj, other, input, readReleased, outcome) ==
    IF outcome = "ok"
    THEN /\ heap' = [heap EXCEPT ![NextSlot] = NewObject(
                        CASE name \in {"PublicKeyFromBytes", "GetPublicKey",
                                       "PublicKeyAggregate"} -> "PublicKey"
                          [] name \in {"ExtendedPublicKeyFromBytes", "PublicChild",
                                       "GetExtendedPublicKey"} -> "ExtendedPublicKey"
                          [] OTHER -> "ExtendedPrivateKey")]
         /\ memOp' = MemOp(name, obj, other, input, "ok", readReleased, NextSlot)
    ELSE /\ heap' = heap
         /\ memOp' = MemOp(name, obj, other, input, outcome, readReleased, 0)

\* Reading a released native handle is undefined: the call may return, or the
\* process may end.
AfterRead(o) == IF heap[o].releases > 0 THEN {"ok", "fault"} ELSE {"ok"}

InputClasses == {"valid", "malformed", "undersized"}

UnchangedOthers == UNCHANGED <<xkey, steps, op, agg>>

ExtendedPrivateKeyFromSeedCall ==
    /\ Running /\ HasRoom
    /\ Returns("ExtendedPrivateKeyFromSeed", 0, 0, "valid", FALSE, "ok")
    /\ UnchangedOthers

\* C.CExtendedPrivateKeyFromBytes(cBytesPtr) takes no length and reports no
\* error: the Go function returns &key whatever the bytes were. A buffer shorter
\* than the encoding is read past its end.
ExtendedPrivateKeyFromBytesCall ==
    /\ Running /\ HasRoom
    /\ \E input \in InputClasses :
         \E outcome \in (IF input = "undersized" THEN {"ok", "fault"} ELSE {"ok"}) :
            Returns("ExtendedPrivateKeyFromBytes", 0, 0, input, FALSE, outcome)
    /\ UnchangedOthers

ExtendedPublicKeyFromBytesCall ==
    /\ Running /\ HasRoom
    /\ \E input \in InputClasses :
         \E outcome \in (IF input = "undersized" THEN {"ok", "fault"} ELSE {"ok"}) :
            Returns("ExtendedPublicKeyFromBytes", 0, 0, input, FALSE, outcome)
    /\ UnchangedOthers

\* C.CPublicKeyFromBytes(cBytesPtr, &cDidErr): bytes that decode to no group
\* element set cDidErr and the Go function returns (nil, err). It takes no length:
\* a short buffer is read past its end, and what is read may or may not decode.
PublicKeyFromBytesCall ==
    /\ Running /\ HasRoom
    /\ \E input \in InputClasses :
         \E outcome \in (CASE input = "valid" -> {"ok"}
                           [] input = "malformed" -> {"InvalidEncoding"}
                           [] OTHER -> {"ok", "InvalidEncoding", "fault"}) :
            Returns("PublicKeyFromBytes", 0, 0, input, FALSE, outcome)
    /\ UnchangedOthers

\* C...Free(key.key): nothing in the object records the release
Free(o) ==
    /\ Running
    /\ heap[o].kind # "free" /\ heap[o].held
    /\ heap[o].releases < MaxReleases
    /\ \E outcome \in AfterRead(o) :
         /\ heap' = [heap EXCEPT ![o].releases = @ + 1]
         /\ memOp' = MemOp("Free", o, 0, "none", outcome, heap[o].releases > 0, 0)
    /\ UnchangedOthers

Serialize(o) ==
    /\ Running
    /\ heap[o].kind # "free" /\ heap[o].held
    /\ \E outcome \in AfterRead(o) :
         /\ heap' = heap
         /\ memOp' = MemOp("Serialize", o, 0, "none", outcome, heap[o].releases > 0, 0)
    /\ UnchangedOthers

Equal(o, other) ==
    /\ Running
    /\ heap[o].kind # "free" /\ heap[o].held
    /\ heap[other].kind = heap[o].kind /\ heap[other].held
    /\ \E outcome \in AfterRead(o) \cup AfterRead(other) :
         /\ heap' = heap
         /\ memOp' = MemOp("Equal", o, other, "none", outcome,
                           heap[o].releases > 0 \/ heap[other].releases > 0, 0)
    /\ UnchangedOthers

\* the methods that read key.key and wrap the native result in a new object
Derives(name, o) ==
    /\ Running /\ HasRoom
    /\ heap[o].held
    /\ \E outcome \in AfterRead(o) :
         Returns(name, o, 0, "none", heap[o].releases > 0, outcome)
    /\ UnchangedOthers

GetPublicKey(o) ==
    /\ heap[o].kind \in {"ExtendedPublicKey", "ExtendedPrivateKey"}
    /\ Derives("GetPublicKey", o)

PrivateChildCall(o) ==
    /\ heap[o].kind = "ExtendedPrivateKey"
    /\ Derives("PrivateChild", o)

PublicChildCall(o) ==
    /\ heap[o].kind = "ExtendedPublicKey"
    /\ Derives("PublicChild", o)

GetExtendedPublicKeyCall(o) ==
    /\ heap[o].kind = "ExtendedPrivateKey"
    /\ Derives("GetExtendedPublicKey", o)

\* the caller lets go of its pointer: the object becomes unreachable
DropReference(o) ==
    /\ Running
    /\ heap[o].kind # "free" /\ heap[o].held
    /\ heap' = [heap EXCEPT ![o].held = FALSE]
    /\ memOp' = MemOp("DropReference", o, 0, "none", "ok", FALSE, 0)
    /\ UnchangedOthers

\* the garbage collector runs func(p *T) { p.Free() } on an unreachable object
RunFinalizer(o) ==
    /\ Running
    /\ heap[o].kind # "free" /\ ~heap[o].held /\ heap[o].finalizer
    /\ \E outcome \in AfterRead(o) :
         /\ heap' = [heap EXCEPT ![o].releases = @ + 1, ![o].finalizer = FALSE]
         /\ memOp' = MemOp("Finalizer", o, 0, "none", outcome, heap[o].releases > 0, 0)
    /\ UnchangedOthers

\* an unreachable object whose finalizer has run is collected
Collect(o) ==
    /\ Running
    /\ heap[o].kind # "free" /\ ~heap[o].held /\ ~heap[o].finalizer
    /\ heap' = [heap EXCEPT ![o] = FreeSlot]
    /\ memOp' = MemOp("Collect", o, 0, "none", "ok", FALSE, 0)
    /\ UnchangedOthers

NextMem ==
    \/ ExtendedPrivateKeyFromSeedCall
    \/ ExtendedPrivateKeyFromBytesCall
    \/ ExtendedPublicKeyFromBytesCall
    \/ PublicKeyFromBytesCall
    \/ \E o \in Slots : Free(o)
    \/ \E o \in Slots : Serialize(o)
    \/ \E o, other \in Slots : Equal(o, other)
    \/ \E o \in Slots : GetPublicKey(o)
    \/ \E o \in Slots : PrivateChildCall(o)
    \/ \E o \in Slots : PublicChildCall(o)
    \/ \E o \in Slots : GetExtendedPublicKeyCall(o)
    \/ \E o \in Slots : DropReference(o)
    \/ \E o \in Slots : RunFinalizer(o)
    \/ \E o \in Slots : Collect(o)

SpecMem == InitMem /\ [][NextMem]_vars

----------------------------------------------------------------------------
(* Properties of the native handles *)

\* C5: the native key material of a key object is released at most once,
\* whatever the interleaving of the caller's Free() and the finalizer: when the
\* finalizer has run on an object, that object's handle has been released once.
ReleasedAtMostOnce ==
    \A o \in Slots :
        (heap[o].kind # "free" /\ ~heap[o].finalizer) => heap[o].releases <= 1

ReadingOps == {"Serialize", "GetPublicKey", "PrivateChild", "PublicChild",
               "GetExtendedPublicKey", "Equal"}

\* C6: no operation reads the native handle of a key object on which Free()
\* has already been performed.
NoUseAfterFree ==
    memOp.name \in ReadingOps => ~memOp.readReleased

ByteConstructors == {"PublicKeyFromBytes", "ExtendedPublicKeyFromBytes",
                     "ExtendedPrivateKeyFromBytes"}

\* C7: a byte constructor given malformed or undersized input fails with
\* InvalidEncoding and returns no key object.
BadBytesRejected ==
    (memOp.name \in ByteConstructors /\ memOp.input # "valid")
        => (memOp.outcome = "InvalidEncoding" /\ memOp.made = 0)

----------------------------------------------------------------------------
(* SpecAgg: publickey.go, PublicKeyAggregate and PublicKeyAggregateInsecure *)

\* the group operation on public keys, and a key taken e times
PointAdd(a, b) == (a * b) % Group.p
PointMul(e, a) == Pow(a, e, Group.p)

RECURSIVE SumPoints(_)
SumPoints(ks) == IF ks = << >> THEN 1 ELSE PointAdd(ks[1], SumPoints(Tail(ks)))

RECURSIVE Insert(_, _)
Insert(x, sorted) ==
    IF sorted = << >> THEN <<x>>
    ELSE IF x <= sorted[1] THEN <<x>> \o sorted
    ELSE <<sorted[1]>> \o Insert(x, Tail(sorted))

RECURSIVE SortKeys(_)
\* the serialized keys of the set, in canonical (sorted) order
SortKeys(ks) == IF ks = << >> THEN << >> ELSE Insert(ks[1], SortKeys(Tail(ks)))

RECURSIVE Weighted(_, _)
Weighted(ks, j) == IF ks = << >> THEN 0 ELSE j * ks[1] + Weighted(Tail(ks), j + 1)

\* the exponent of one key: a hash of the key and of all keys of the set
AggregationHash(pk, ks) == (pk + Weighted(SortKeys(ks), 1)) % Group.q

\* the native calls: {didErr, pk}
NativeErr == [didErr |-> TRUE, pk |-> 0]

CPublicKeyAggregateInsecure(ptrs, n) ==
    IF n = 0 THEN NativeErr
    ELSE [didErr |-> FALSE, pk |-> SumPoints(SubSeq(ptrs, 1, n))]

CPublicKeyAggregate(ptrs, n) ==
    LET ks == SubSeq(ptrs, 1, n)
    IN IF n = 0 THEN NativeErr
       ELSE [didErr |-> FALSE,
             pk |-> SumPoints([j \in 1 .. n |-> PointMul(AggregationHash(ks[j], ks), ks[j])])]

\* for i, k := range keys { C.SetPtrArray(cPublicKeyArrayPtr, unsafe.Pointer(k.pk), C.int(i)) }
PtrArray(keys) == [j \in 1 .. Len(keys) |-> keys[j]]

\* what an aggregation returns: (key, nil) with the finalizer set, or (nil, err)
AggOk(pk) == [outcome |-> "ok", key |-> pk, finalizer |-> TRUE]
AggErr == [outcome |-> "EmptyInput", key |-> 0, finalizer |-> FALSE]

\* variants of the two functions with one slip each
PublicKeyAggregate_ShortCount(keys) ==
    LET n == IF Len(keys) > 1 THEN Len(keys) - 1 ELSE Len(keys)
        r == CPublicKeyAggregate(PtrArray(keys), n)
    IN IF r.didErr THEN AggErr ELSE AggOk(r.pk)

PublicKeyAggregateInsecure_ErrIgnored(keys) ==
    LET r == CPublicKeyAggregateInsecure(PtrArray(keys), Len(keys))
    IN AggOk(r.pk)

PublicKeyAggregate(keys) ==
    LET r == CPublicKeyAggregate(PtrArray(keys), Len(keys))
    IN IF r.didErr THEN AggErr ELSE AggOk(r.pk)

PublicKeyAggregateInsecure(keys) ==
    LET r == CPublicKeyAggregateInsecure(PtrArray(keys), Len(keys))
    IN IF r.didErr THEN AggErr ELSE AggOk(r.pk)

KeyLists == UNION {[1 .. n -> Points] : n \in 0 .. MaxKeys}

AggCall(name, keys, r) ==
    [name |-> name, input |-> keys, outcome |-> r.outcome, key |-> r.key,
     finalizer |-> r.finalizer]

InitAgg ==
    /\ agg = [name |-> "none", input |-> << >>, outcome |-> "none", key |-> 0,
              finalizer |-> FALSE]
    /\ TreeIdle
    /\ MemIdle

PublicKeyAggregateStep ==
    /\ \E keys \in KeyLists :
          agg' = AggCall("PublicKeyAggregate", keys, PublicKeyAggregate(keys))
    /\ UNCHANGED <<xkey, steps, op, heap, memOp>>

PublicKeyAggregateInsecureStep ==
    /\ \E keys \in KeyLists :
          agg' = AggCall("PublicKeyAggregateInsecure", keys, PublicKeyAggregateInsecure(keys))
    /\ UNCHANGED <<xkey, steps, op, heap, memOp>>

NextAgg == PublicKeyAggregateStep \/ PublicKeyAggregateInsecureStep

SpecAgg == InitAgg /\ [][NextAgg]_vars

----------------------------------------------------------------------------
(* Properties of aggregation *)

Aggregations == {"PublicKeyAggregate", "PublicKeyAggregateInsecure"}

Aggregate(name, keys) ==
    IF name = "PublicKeyAggregate" THEN PublicKeyAggregate(keys)
    ELSE PublicKeyAggregateInsecure(keys)

\* the reorderings of a list
Permutations(keys) ==
    {[j \in 1 .. Len(keys) |-> keys[f[j]]] :
        f \in {g \in [1 .. Len(keys) -> 1 .. Len(keys)] :
                  \A a, b \in 1 .. Len(keys) : g[a] = g[b] => a = b}}

\* C9: for a non-empty list of public keys, PublicKeyAggregate returns the same
\* key for every permutation of the list, and so does PublicKeyAggregateInsecure.
AggregationCommutes ==
    (agg.name \in Aggregations /\ Len(agg.input) > 0)
        => \A keys \in Permutations(agg.input) :
              LET r == Aggregate(agg.name, keys)
              IN r.outcome = agg.outcome /\ r.key = agg.key

\* C9 witness: the secure aggregate of three keys, not all equal, that differs
\* from their plain sum.
AggregationCommutesSeen ==
    /\ agg.name = "PublicKeyAggregate"
    /\ Len(agg.input) = 3
    /\ agg.input[1] # agg.input[2]
    /\ agg.outcome = "ok"
    /\ agg.key # SumPoints(agg.input)

\* C10: both aggregations fail with EmptyInput and return no key for zero keys,
\* and return a newly owned key for every non-empty list.
AggregationTotal ==
    agg.name \in Aggregations
        => IF Len(agg.input) = 0
           THEN agg.outcome = "EmptyInput" /\ agg.key = 0 /\ ~agg.finalizer
           ELSE agg.outcome = "ok" /\ agg.key \in Points /\ agg.finalizer

\* C10 witness: PublicKeyAggregateInsecure was called with zero keys and failed.
AggregationOfNothing ==
    /\ agg.name = "PublicKeyAggregateInsecure"
    /\ agg.input = << >>
    /\ agg.outcome = "EmptyInput"

=============================================================================
